---- MODULE Spec2Model ----
(***************************************************************************)
(* The keyword retrieval store of mds-chatbot (SimpleRAGStore) and the     *)
(* document processing it loads its chunks from.                           *)
(*                                                                         *)
(* JavaScript strings are TLA+ strings; a character is a string of length  *)
(* one, taken with SubSeq.  Positions are 1-based: position p of a text    *)
(* of length n lies before character p, and n + 1 is the end of the text.  *)
(***************************************************************************)
EXTENDS Integers, Sequences, FiniteSets, TLC

(***************************************************************************)
(* String primitives of the JavaScript runtime used by the store.          *)
(***************************************************************************)

CharAt(s, i) == SubSeq(s, i, i)

UpperCase == {"A", "B", "C", "D", "E", "F", "G", "H", "I", "J", "K", "L", "M",
              "N", "O", "P", "Q", "R", "S", "T", "U", "V", "W", "X", "Y", "Z"}

LowerCase == {"a", "b", "c", "d", "e", "f", "g", "h", "i", "j", "k", "l", "m",
              "n", "o", "p", "q", "r", "s", "t", "u", "v", "w", "x", "y", "z"}

Digits == {"0", "1", "2", "3", "4", "5", "6", "7", "8", "9"}

\* /\s/ of the regular expressions in the store, for the characters of the model
WhiteSpace == {" ", "\n", "\t"}

\* \w of a regular expression: the characters on the word side of \b
WordChars == LowerCase \cup UpperCase \cup Digits \cup {"_"}

LowerOfChar(c) ==
    CASE c = "A" -> "a" [] c = "B" -> "b" [] c = "C" -> "c" [] c = "D" -> "d"
      [] c = "E" -> "e" [] c = "F" -> "f" [] c = "G" -> "g" [] c = "H" -> "h"
      [] c = "I" -> "i" [] c = "J" -> "j" [] c = "K" -> "k" [] c = "L" -> "l"
      [] c = "M" -> "m" [] c = "N" -> "n" [] c = "O" -> "o" [] c = "P" -> "p"
      [] c = "Q" -> "q" [] c = "R" -> "r" [] c = "S" -> "s" [] c = "T" -> "t"
      [] c = "U" -> "u" [] c = "V" -> "v" [] c = "W" -> "w" [] c = "X" -> "x"
      [] c = "Y" -> "y" [] c = "Z" -> "z" [] OTHER -> c

RECURSIVE ToLowerFrom(_, _)
ToLowerFrom(s, i) ==
    IF i > Len(s) THEN "" ELSE LowerOfChar(CharAt(s, i)) \o ToLowerFrom(s, i + 1)

\* String.prototype.toLowerCase
ToLowerCase(s) == ToLowerFrom(s, 1)

\* String.prototype.includes: needle occurs in hay as a contiguous substring
Includes(hay, needle) ==
    \E p \in 1..(Len(hay) - Len(needle) + 1) :
        SubSeq(hay, p, p + Len(needle) - 1) = needle

RECURSIVE SplitFrom(_, _, _)
SplitFrom(s, i, cur) ==
    IF i > Len(s) THEN <<cur>>
    ELSE IF CharAt(s, i) \in WhiteSpace
         THEN IF i > 1 /\ CharAt(s, i - 1) \in WhiteSpace
              THEN SplitFrom(s, i + 1, cur)
              ELSE <<cur>> \o SplitFrom(s, i + 1, "")
         ELSE SplitFrom(s, i + 1, cur \o CharAt(s, i))

\* String.prototype.split(/\s+/): a run of white space is one separator; the
\* empty string splits into one empty token, and leading or trailing white
\* space gives an empty first or last token
SplitWhiteSpace(s) == SplitFrom(s, 1, "")

RECURSIVE TrimLeftFrom(_, _)
TrimLeftFrom(s, i) ==
    IF i > Len(s) THEN ""
    ELSE IF CharAt(s, i) \in WhiteSpace THEN TrimLeftFrom(s, i + 1)
         ELSE SubSeq(s, i, Len(s))

RECURSIVE TrimRightTo(_, _)
TrimRightTo(s, n) ==
    IF n = 0 THEN ""
    ELSE IF CharAt(s, n) \in WhiteSpace THEN TrimRightTo(s, n - 1)
         ELSE SubSeq(s, 1, n)

\* String.prototype.trim
Trim(s) == TrimLeftFrom(TrimRightTo(s, Len(s)), 1)

(***************************************************************************)
(* new RegExp(`\\b${word}\\b`, 'gi') and String.prototype.match with it.    *)
(*                                                                         *)
(* The word is pasted into the pattern unescaped, so its characters are    *)
(* pattern syntax.  The model covers the syntax a query over QueryChars    *)
(* can produce: a literal character, "." (any character but a line break), *)
(* the quantifiers "?", "+" and "*" with their lazy forms "??", "+?" and    *)
(* "*?", and "(".  No query of the model holds a ")", so a "(" always       *)
(* opens a group that is never closed.                                     *)
(***************************************************************************)

Quantifiers == {"?", "+", "*"}

\* one pattern term: an atom and how often it may repeat
Term(c, q, lazy) ==
    [ch |-> c,
     min |-> IF q = "+" \/ q = "" THEN 1 ELSE 0,
     many |-> q = "+" \/ q = "*",
     greedy |-> ~lazy]

RECURSIVE ParseTerms(_, _, _)
ParseTerms(word, i, terms) ==
    IF i > Len(word) THEN [ok |-> TRUE, terms |-> terms]
    ELSE LET c == CharAt(word, i)
             q == IF i + 1 <= Len(word) /\ CharAt(word, i + 1) \in Quantifiers
                  THEN CharAt(word, i + 1) ELSE ""
             lazy == q # "" /\ i + 2 <= Len(word) /\ CharAt(word, i + 2) = "?"
             next == i + 1 + (IF q # "" THEN 1 ELSE 0) + (IF lazy THEN 1 ELSE 0)
         IN  IF c = "(" THEN [ok |-> FALSE, terms |-> <<>>]           \* SyntaxError: Unterminated group
             ELSE IF c \in Quantifiers THEN [ok |-> FALSE, terms |-> <<>>]  \* SyntaxError: Nothing to repeat
             ELSE ParseTerms(word, next, Append(terms, Term(c, q, lazy)))

\* The RegExp constructor on `\\b${word}\\b`: ok = FALSE is the SyntaxError it
\* throws.  The leading \b is an assertion and cannot be repeated, so a
\* quantifier at the start of the word has nothing to repeat.
NewWordRegExp(word) == ParseTerms(word, 1, <<>>)

\* \b holds at position p: exactly one of the characters around p is a word character
IsWordBoundary(text, p) ==
    (p > 1 /\ CharAt(text, p - 1) \in WordChars)
        # (p <= Len(text) /\ CharAt(text, p) \in WordChars)

\* flag i: letters compare without case
AtomMatches(a, c) ==
    IF a = "." THEN c # "\n" ELSE LowerOfChar(a) = LowerOfChar(c)

\* The backtracking matcher: the position after the match of terms[k..] and the
\* closing \b from position p, or 0 when there is none; taken counts the
\* repetitions of terms[k] already consumed.
RECURSIVE MatchTerms(_, _, _, _, _)
MatchTerms(terms, k, text, p, taken) ==
    IF k > Len(terms) THEN (IF IsWordBoundary(text, p) THEN p ELSE 0)
    ELSE LET t == terms[k]
             canTake == /\ p <= Len(text)
                        /\ AtomMatches(t.ch, CharAt(text, p))
                        /\ (t.many \/ taken = 0)
             take == IF canTake THEN MatchTerms(terms, k, text, p + 1, taken + 1) ELSE 0
             skip == MatchTerms(terms, k + 1, text, p, 0)
         IN  IF taken < t.min THEN take
             ELSE IF t.greedy THEN (IF take # 0 THEN take ELSE skip)
             ELSE (IF skip # 0 THEN skip ELSE take)

\* the match that starts at s, if the opening \b holds there
MatchAt(terms, text, s) ==
    IF IsWordBoundary(text, s) THEN MatchTerms(terms, 1, text, s, 0) ELSE 0

\* contentLower.match(wordRegex) under flag g: the matches are found left to
\* right from lastIndex, which moves to the end of each match, or one further
\* after an empty match; the count is the length of the array (null: 0)
RECURSIVE CountMatches(_, _, _)
CountMatches(terms, text, lastIndex) ==
    LET starts == {s \in lastIndex..(Len(text) + 1) : MatchAt(terms, text, s) # 0}
    IN  IF starts = {} THEN 0
        ELSE LET s == CHOOSE a \in starts : \A b \in starts : a <= b
                 e == MatchAt(terms, text, s)
             IN  1 + CountMatches(terms, text, IF e = s THEN s + 1 ELSE e)

(***************************************************************************)
(* DocumentProcessingService: from the source file to the chunk records.   *)
(*                                                                         *)
(* The file on disk, mammoth and the LangChain text splitter are outside   *)
(* the repository.  A source file of the model says what they deliver:     *)
(* whether the file exists, whether mammoth can read it, the raw text, and *)
(* the pieces RecursiveCharacterTextSplitter.splitText cuts the text into. *)
(***************************************************************************)

SchoolText == "Our school offers a science program. Admission requires an application form."

ScatteredText == "Tuition is paid yearly. Fees cover books."
LunchText == "Lunch is served at noon."
PhraseText == "Tuition fees are due in May."

MissingFile == [exists |-> FALSE, readable |-> FALSE, text |-> "", pieces |-> <<>>]
CorruptFile == [exists |-> TRUE, readable |-> FALSE, text |-> "", pieces |-> <<>>]
BlankFile == [exists |-> TRUE, readable |-> TRUE, text |-> " \n", pieces |-> <<>>]
SchoolFile == [exists |-> TRUE, readable |-> TRUE, text |-> SchoolText,
               pieces |-> <<SchoolText>>]
FeesFile == [exists |-> TRUE, readable |-> TRUE,
             text |-> ScatteredText \o "\n\n" \o LunchText \o "\n\n" \o PhraseText,
             pieces |-> <<ScatteredText, LunchText, PhraseText>>]

TuitionFile == [exists |-> TRUE, readable |-> TRUE,
                text |-> ScatteredText \o "\n\n" \o PhraseText,
                pieces |-> <<ScatteredText, PhraseText>>]

CrowdedText == "Academy school tuition. Student course fees, student program fees. Admission tuition."

CrowdedFile == [exists |-> TRUE, readable |-> TRUE,
                text |-> CrowdedText \o "\n\n" \o PhraseText,
                pieces |-> <<CrowdedText, PhraseText>>]

\* what may lie at src/data/Questions about Abu Rayyan Academy.docx when a load reads it
SourceFiles == {MissingFile, CorruptFile, BlankFile, SchoolFile, FeesFile, TuitionFile,
                CrowdedFile}

SourceName == "Questions about Abu Rayyan Academy.docx"

Failure(msg) == [ok |-> FALSE, error |-> msg, chunks |-> <<>>]
Success(chunks) == [ok |-> TRUE, error |-> "", chunks |-> chunks]

\* the chunk records numbered from 1
SplitTextIntoChunksFromOne(pieces, source, uuids) ==
    [index \in 1..Len(pieces) |->
        [id |-> uuids + index,
         content |-> Trim(pieces[index]),
         metadata |-> [source |-> source,
                       chunkIndex |-> index,
                       totalChunks |-> Len(pieces),
                       wordCount |-> Len(SplitWhiteSpace(pieces[index]))]]]

\* splitTextIntoChunks: one DocumentChunk per piece of the splitter, in order; the
\* n-th uuidv4() of the process is the number n
SplitTextIntoChunks(pieces, source, uuids) ==
    [index \in 1..Len(pieces) |->
        [id |-> uuids + index,
         content |-> Trim(pieces[index]),
         metadata |-> [source |-> source,
                       chunkIndex |-> index - 1,
                       totalChunks |-> Len(pieces),
                       wordCount |-> Len(SplitWhiteSpace(pieces[index]))]]]

\* processDocxFile without the check of the extracted text
ProcessDocxFileUnchecked(file, uuids) ==
    IF ~file.exists THEN Failure("File not found")
    ELSE IF ~file.readable THEN Failure("Failed to extract text")
    ELSE Success(SplitTextIntoChunks(file.pieces, SourceName, uuids))

\* processDocxFile: the existence check, extractTextFromDocx, the empty-text check,
\* then splitTextIntoChunks; every error is rethrown to the caller
ProcessDocxFile(file, uuids) ==
    IF ~file.exists THEN Failure("File not found")
    ELSE IF ~file.readable THEN Failure("Failed to extract text")
    ELSE IF Len(Trim(file.text)) = 0 THEN Failure("No text content found in the document")
    ELSE Success(SplitTextIntoChunks(file.pieces, SourceName, uuids))

\* processAbuRayyanDocument: processDocxFile on the fixed path
ProcessAbuRayyanDocument(file, uuids) == ProcessDocxFile(file, uuids)

(***************************************************************************)
(* SimpleRAGStore.searchSimilar: scoring, selection and the result.        *)
(***************************************************************************)

PhraseWeight == 10
WordWeight == 2
TermWeight == 1

academyTerms == <<"academy", "school", "education", "student", "course", "program", "admission">>

\* queryLower.split(/\s+/).filter(word => word.length > 2)
QueryWords(queryLower) == SelectSeq(SplitWhiteSpace(queryLower), LAMBDA word : Len(word) > 2)

\* the first query word whose RegExp constructor throws, if any
ThrowingWords(queryWords) == {i \in 1..Len(queryWords) : ~NewWordRegExp(queryWords[i]).ok}

\* the phrase bonus left out
PhraseScoreNothing(contentLower, queryLower) == 0

\* if (contentLower.includes(queryLower)) score += 10
PhraseScore(contentLower, queryLower) ==
    IF Includes(contentLower, queryLower) THEN PhraseWeight ELSE 0

\* queryWords.forEach: score += matches.length * 2 for each word
RECURSIVE WordScore(_, _, _)
WordScore(contentLower, queryWords, i) ==
    IF i > Len(queryWords) THEN 0
    ELSE CountMatches(NewWordRegExp(queryWords[i]).terms, contentLower, 1) * WordWeight
             + WordScore(contentLower, queryWords, i + 1)

\* academyTerms.forEach: score += 1 for each term the content includes
RECURSIVE TermScore(_, _)
TermScore(contentLower, i) ==
    IF i > Len(academyTerms) THEN 0
    ELSE (IF Includes(contentLower, academyTerms[i]) THEN TermWeight ELSE 0)
             + TermScore(contentLower, i + 1)

\* the callback of this.documents.map
ScoreChunk(chunk, queryLower, queryWords) ==
    LET contentLower == ToLowerCase(chunk.content)
    IN  [chunk |-> chunk,
         score |-> PhraseScore(contentLower, queryLower)
                       + WordScore(contentLower, queryWords, 1)
                       + TermScore(contentLower, 1)]

\* the filter left out
FilterNothing(items) == items

\* .filter(item => item.score > 0)
FilterPositive(items) == SelectSeq(items, LAMBDA item : item.score > 0)

\* inserting one item before the items that compare equal to it
RECURSIVE InsertBeforeEqual(_, _)
InsertBeforeEqual(sorted, item) ==
    IF sorted = <<>> THEN <<item>>
    ELSE IF Head(sorted).score - item.score <= 0
         THEN <<item>> \o sorted
         ELSE <<Head(sorted)>> \o InsertBeforeEqual(Tail(sorted), item)

\* inserting one item into a list sorted by (a, b) => b.score - a.score, behind
\* the items that compare equal to it
RECURSIVE InsertByScore(_, _)
InsertByScore(sorted, item) ==
    IF sorted = <<>> THEN <<item>>
    ELSE IF Head(sorted).score - item.score < 0
         THEN <<item>> \o sorted
         ELSE <<Head(sorted)>> \o InsertByScore(Tail(sorted), item)

RECURSIVE SortFrom(_, _, _)
SortFrom(items, i, sorted) ==
    IF i > Len(items) THEN sorted
    ELSE SortFrom(items, i + 1, InsertByScore(sorted, items[i]))

\* the sort left out
SortNothing(items) == items

\* .sort((a, b) => b.score - a.score): Array.prototype.sort is stable
SortByScore(items) == SortFrom(items, 1, <<>>)

\* .slice(0, topK): a negative end counts from the end of the array
SliceTopK(items, topK) ==
    LET end == IF topK < 0 THEN (IF Len(items) + topK < 0 THEN 0 ELSE Len(items) + topK)
               ELSE (IF topK > Len(items) THEN Len(items) ELSE topK)
    IN  SubSeq(items, 1, end)

\* the body of searchSimilar behind the readiness check, over the chunk cache
\* docs: threw is the SyntaxError of a query word's pattern, raised in the map
\* callback of the first chunk and rethrown as "Failed to search for similar chunks"
ScoreAndSelect(docs, query, topK) ==
    LET queryLower == ToLowerCase(query)
        queryWords == QueryWords(queryLower)
    IN  IF docs # <<>> /\ ThrowingWords(queryWords) # {}
        THEN [threw |-> TRUE, chunks |-> <<>>, scores |-> <<>>, query |-> query]
        ELSE LET scoredChunks == [i \in 1..Len(docs) |-> ScoreChunk(docs[i], queryLower, queryWords)]
                 topChunks == SliceTopK(SortByScore(FilterPositive(scoredChunks)), topK)
             IN  [threw |-> FALSE,
                  chunks |-> [i \in 1..Len(topChunks) |-> topChunks[i].chunk],
                  scores |-> [i \in 1..Len(topChunks) |-> topChunks[i].score],
                  query |-> query]

(***************************************************************************)
(* SimpleRAGStore.getRetrievalContext: the context assembled from a result *)
(***************************************************************************)

\* no message at all
NoMessage == ""

FallbackMessage == "No relevant information found in the Abu Rayyan Academy documents."

ContextHeader == "Based on the Abu Rayyan Academy documents:\n\n"

\* `${index + 1}` for the indexes of the model
NumberToString(n) ==
    CASE n = 1 -> "1" [] n = 2 -> "2" [] n = 3 -> "3" [] n = 4 -> "4" [] n = 5 -> "5"
      [] n = 6 -> "6" [] n = 7 -> "7" [] n = 8 -> "8" [] n = 9 -> "9"

\* the chunks appended from the last to the first
RECURSIVE AppendChunksBackwards(_, _, _)
AppendChunksBackwards(context, chunks, index) ==
    IF index > Len(chunks) THEN context
    ELSE AppendChunksBackwards(context \o "[Document " \o NumberToString(index) \o "]:\n"
                                   \o chunks[Len(chunks) + 1 - index].content \o "\n\n",
                               chunks, index + 1)

RECURSIVE AppendChunks(_, _, _)
AppendChunks(context, chunks, index) ==
    IF index > Len(chunks) THEN context
    ELSE AppendChunks(context \o "[Document " \o NumberToString(index) \o "]:\n"
                          \o chunks[index].content \o "\n\n",
                      chunks, index + 1)

\* the part of getRetrievalContext behind its searchSimilar call
AssembleContext(chunks) ==
    IF Len(chunks) = 0 THEN FallbackMessage
    ELSE AppendChunks(ContextHeader, chunks, 1)

(***************************************************************************)
(* The revision of SimpleRAGStore that refers the reader to the academy:   *)
(* its getRetrievalContext differs from the one above behind the           *)
(* searchSimilar call only.  It has another fallback text and joins the    *)
(* contents without header or labels, then trims the whole.                *)
(***************************************************************************)

\* the template literal returned for an empty result, its three pictographs left out
ContactFallbackMessage ==
    "I don't have specific information about that topic readily available at the moment."
        \o "\n\nFor more detailed information, please contact Abu Rayyan Academy directly:"
        \o "\nPhone: +974 XXXX XXXX (Main Office)"
        \o "\nEmail: info@aburayyanacademy.edu.qa"
        \o "\nAdmissions: admissions@aburayyanacademy.edu.qa"

\* results.chunks.forEach: context += `${chunk.content}\n\n`
RECURSIVE JoinContents(_, _, _)
JoinContents(context, chunks, index) ==
    IF index > Len(chunks) THEN context
    ELSE JoinContents(context \o chunks[index].content \o "\n\n", chunks, index + 1)

\* the joined contents returned as they are, the closing blank line included
AssembleUntrimmedContext(chunks) ==
    IF Len(chunks) = 0 THEN ContactFallbackMessage
    ELSE JoinContents("", chunks, 1)

\* the part of this getRetrievalContext behind its searchSimilar call
AssembleTrimmedContext(chunks) ==
    IF Len(chunks) = 0 THEN ContactFallbackMessage
    ELSE Trim(JoinContents("", chunks, 1))

(***************************************************************************)
(* The Groq route handlers: chat-rag-groq/route.ts and chat-groq/route.ts. *)
(* One request is followed from POST to the close of its response stream.  *)
(***************************************************************************)

VARIABLES
    route,          \* the handler that serves the request, "none" before the request
    httpStatus,     \* the HTTP status of the response, 0 while there is none
    at,             \* where start(controller) stands
    tried,          \* the models create() was called with and how each call ended, in call order
    chatCompletion, \* the model whose create() succeeded, "none" while there is none
    lastError,      \* lastError: the message of the last modelError caught
    chunksRead,     \* the chunks the for await loop has taken from the completion
    enqueued,       \* the chunks controller.enqueue() has taken, in order
    closes          \* the number of calls of controller.close() that closed the stream

groqVars == <<route, httpStatus, at, tried, chatCompletion, lastError, chunksRead, enqueued, closes>>

Handlers == {"chat-rag-groq", "chat-groq"}

\* const models of the two handlers
RagModels == <<"llama-3.1-8b-instant", "mixtral-8x7b-32768", "gemma-7b-it">>
ChatModels == <<"llama-3.1-8b-instant", "llama-3.1-70b-versatile", "mixtral-8x7b-32768",
                "gemma-7b-it">>

models(h) == IF h = "chat-rag-groq" THEN RagModels ELSE ChatModels

\* the message fields of the request bodies
GroqMessages == {"", "What are the fees?"}

\* the messages of the errors create() rejects with
ModelErrors == {"model decommissioned", "rate limit reached", "Invalid API key"}

\* the messages of the errors the completion throws while it is read
StreamErrors == {"connection lost"}

\* delta.content of the chunks of a completion
Contents == {"", "Fees", " are due"}

\* the for await loop takes at most MaxChunks chunks
MaxChunks == 2

NoModel == "none"
NoError == ""

\* the error field of the errorChunk of the handler h for the error message
ErrorField(h, message) ==
    IF h = "chat-rag-groq" THEN "Groq RAG Error: " \o message
    ELSE "Failed to generate response. " \o
             (IF Includes(message, "API key")
                  THEN "Invalid Groq API key. Get a free one at https://console.groq.com"
              ELSE IF Includes(message, "quota") \/ Includes(message, "rate")
                  THEN "Rate limit exceeded. Please wait a moment and try again."
              ELSE message)

\* chunkData, finalChunk and errorChunk, without their metadata
ChunkData(content) == [content |-> content, done |-> FALSE, error |-> NoError]
FinalChunk == [content |-> "", done |-> TRUE, error |-> NoError]
ErrorChunk(h, message) == [content |-> "", done |-> TRUE, error |-> ErrorField(h, message)]

(***************************************************************************)
(* The state of the singleton simpleRAGStore.                              *)
(***************************************************************************)

VARIABLES
    documents,      \* this.documents: the chunk cache
    isInitialized,  \* this.isInitialized: the ready flag
    uuidCount,      \* the number of uuidv4() values drawn so far
    pc,             \* per caller: where its call is suspended
    lastRead,       \* the file the step into this state read, and for which caller
    ret             \* what the step into this state returned to its caller

\* lastRead and ret show what the last step did, beside the state it left.  The
\* step after one that read a file or returned a value is Continue, which only
\* clears them: what a step returned is read against the store as the step left it.

storeVars == <<documents, isInitialized, uuidCount, pc, lastRead, ret>>

(***************************************************************************)
(* The conversations API: app/api/conversations/route.ts and               *)
(* app/api/conversations/[id]/route.ts over the Conversation collection.   *)
(*                                                                         *)
(* A handler awaits connectToDatabase(), getUserContext(), the request     *)
(* body and one query on the collection; the query is the only access to   *)
(* the collection and MongoDB runs it atomically, so one request is one    *)
(* step.  A handler is an operator from the collection and the request to  *)
(* the response and the collection after it.                               *)
(***************************************************************************)

\* the users Clerk knows; auth() gives userId null for a caller without session
Users == {"alice", "bob"}
Guest == "null"
Requesters == Users \cup {Guest}

MaxConversations == 2

\* the ObjectIds MongoDB hands out, in the order it hands them out
ObjectIds == 1..MaxConversations

\* an id that mongoose.Types.ObjectId.isValid rejects
InvalidId == 0

\* no id: the null of currentConversation
NoId == -1

\* the id of the conversation in sessionStorage, `${guestId}_${Date.now()}`
GuestConversationId == -2

Message(role, content) == [role |-> role, content |-> content]

\* the message the mounted component starts from
defaultMessages == <<Message("assistant", "Hello! I'm your AI assistant. How can I help you today?")>>

\* the user's text, the empty placeholder of the reply, the streamed reply, and
\* the text shown when the exchange fails
userMessage == Message("user", "What are the fees?")
assistantMessage == Message("assistant", "")
finalAssistantMessage == Message("assistant", "The fees are due in May.")
errorText == "Sorry, I encountered an error. Please try again."

\* the bodies requests carry: isArray is Array.isArray(messages) in POST and
\* messages !== undefined in PUT
MessageLists == {<<>>, <<userMessage>>}
Bodies == [isArray : BOOLEAN, messages : MessageLists]
MessagesBody(messages) == [isArray |-> TRUE, messages |-> messages]

\* a document of the collection, and the place of an id without document
Conversation(userId, messages) == [exists |-> TRUE, userId |-> userId, messages |-> messages]
NoConversation == [exists |-> FALSE, userId |-> Guest, messages |-> <<>>]

\* what a handler gives: the HTTP status, the fields of the JSON body the
\* claims read, and the collection and the count of ObjectIds after the request
Result(status, isGuest, id, messages, ids, collection, count) ==
    [status |-> status, isGuest |-> isGuest, id |-> id, messages |-> messages,
     ids |-> ids, conversations |-> collection, objectIdCount |-> count]

\* a response without conversation data: { error } or { message }
Bare(status, collection, count) == Result(status, FALSE, NoId, <<>>, {}, collection, count)

\* POST /api/conversations without the guest branch: the conversation of a
\* caller without session is saved like any other
POSTSavingGuests(collection, count, userId, body, guestId, connected) ==
    IF ~connected THEN Bare(500, collection, count)
    ELSE IF ~body.isArray THEN Bare(400, collection, count)
    ELSE Result(200, FALSE, count + 1, body.messages, {},
                [collection EXCEPT ![count + 1] = Conversation(userId, body.messages)],
                count + 1)

\* POST /api/conversations
POST(collection, count, userId, body, guestId, connected) ==
    IF ~connected THEN Bare(500, collection, count)
    ELSE IF ~body.isArray THEN Bare(400, collection, count)
    ELSE IF userId = Guest
         THEN Result(200, TRUE, guestId, body.messages, {}, collection, count)
    ELSE Result(200, FALSE, count + 1, body.messages, {},
                [collection EXCEPT ![count + 1] = Conversation(userId, body.messages)],
                count + 1)

\* GET /api/conversations: the ids of the caller's conversations
GET(collection, count, userId, connected) ==
    IF userId = Guest THEN Result(200, FALSE, NoId, <<>>, {}, collection, count)
    ELSE IF ~connected THEN Bare(500, collection, count)
    ELSE Result(200, FALSE, NoId, <<>>,
                {id \in ObjectIds : collection[id].exists /\ collection[id].userId = userId},
                collection, count)

\* GET /api/conversations/[id]
GETById(collection, count, userId, id, connected) ==
    IF userId = Guest THEN Bare(401, collection, count)
    ELSE IF ~connected THEN Bare(500, collection, count)
    ELSE IF id \notin ObjectIds THEN Bare(400, collection, count)
    ELSE IF ~(collection[id].exists /\ collection[id].userId = userId)
         THEN Bare(404, collection, count)
    ELSE Result(200, FALSE, id, collection[id].messages, {}, collection, count)

\* PUT /api/conversations/[id]
PUT(collection, count, userId, id, body, connected) ==
    IF ~connected THEN Bare(500, collection, count)
    ELSE IF id \notin ObjectIds THEN Bare(400, collection, count)
    ELSE IF ~collection[id].exists THEN Bare(404, collection, count)
    ELSE LET updated == IF body.isArray
                        THEN [collection EXCEPT ![id].messages = body.messages]
                        ELSE collection
         IN  Result(200, FALSE, id, updated[id].messages, {}, updated, count)

\* DELETE /api/conversations/[id]
DELETE(collection, count, userId, id, connected) ==
    IF ~connected THEN Bare(500, collection, count)
    ELSE IF id \notin ObjectIds THEN Bare(400, collection, count)
    ELSE IF ~collection[id].exists THEN Bare(404, collection, count)
    ELSE Bare(200, [collection EXCEPT ![id] = NoConversation], count)

(***************************************************************************)
(* The browser: GuestConversationService over sessionStorage,              *)
(* ConversationService over fetch, UnifiedConversationService over both,   *)
(* and the state of the UnifiedChatInterface component.                    *)
(***************************************************************************)

\* what a call of the conversation services gives the component: saved is
\* whether it returns a conversation (not null), threw whether it throws
Saved(id, messages, collection, count, session) ==
    [saved |-> TRUE, threw |-> FALSE, id |-> id, messages |-> messages,
     conversations |-> collection, objectIdCount |-> count, sessionStorage |-> session]
Null(collection, count, session) ==
    [saved |-> FALSE, threw |-> FALSE, id |-> NoId, messages |-> <<>>,
     conversations |-> collection, objectIdCount |-> count, sessionStorage |-> session]
Threw(collection, count, session) ==
    [saved |-> FALSE, threw |-> TRUE, id |-> NoId, messages |-> <<>>,
     conversations |-> collection, objectIdCount |-> count, sessionStorage |-> session]

\* ConversationService.updateConversation: fetch PUT, throw unless response.ok
updateConversation(collection, count, session, userId, id, body, connected) ==
    LET r == PUT(collection, count, userId, id, body, connected)
    IN  IF r.status = 200
        THEN Saved(r.id, r.messages, r.conversations, r.objectIdCount, session)
        ELSE Threw(r.conversations, r.objectIdCount, session)

\* ConversationService.getConversation: fetch GET, throw unless response.ok
getConversation(collection, count, session, userId, id, connected) ==
    LET r == GETById(collection, count, userId, id, connected)
    IN  IF r.status = 200
        THEN Saved(r.id, r.messages, r.conversations, r.objectIdCount, session)
        ELSE Threw(r.conversations, r.objectIdCount, session)

\* GuestConversationService.updateMessages
updateMessages(collection, count, session, conversationId, messages) ==
    IF ~session.exists \/ conversationId # GuestConversationId
    THEN Null(collection, count, session)
    ELSE Saved(GuestConversationId, messages, collection, count,
               [session EXCEPT !.messages = messages])

\* GuestConversationService.createConversation
createGuestConversation(collection, count, session, messages) ==
    Saved(GuestConversationId, messages, collection, count,
          [exists |-> TRUE, messages |-> messages])

\* UnifiedConversationService.saveMessages; userId is the session the browser
\* sends with the request
saveMessages(collection, count, session, userId, conversationId, messages, isAuthenticated, connected) ==
    IF isAuthenticated /\ conversationId # NoId
    THEN updateConversation(collection, count, session, userId, conversationId,
                            MessagesBody(messages), connected)
    ELSE IF ~isAuthenticated
         THEN IF conversationId # NoId
              THEN updateMessages(collection, count, session, conversationId, messages)
              ELSE createGuestConversation(collection, count, session, messages)
    ELSE Null(collection, count, session)

\* UnifiedConversationService.getConversation
getUnifiedConversation(collection, count, session, userId, id, isAuthenticated, connected) ==
    IF isAuthenticated
    THEN LET r == getConversation(collection, count, session, userId, id, connected)
         IN  IF r.threw THEN Null(collection, count, session) ELSE r
    ELSE IF session.exists /\ id = GuestConversationId
         THEN Saved(GuestConversationId, session.messages, collection, count, session)
    ELSE Null(collection, count, session)

MaxExchanges == 1

\* the ChatConfig of the component
Configs == [enableStorage : BOOLEAN, autoSave : BOOLEAN]
DEFAULT_CONFIG == [enableStorage |-> TRUE, autoSave |-> TRUE]

\* the ids a request or a click can name
RequestIds == ObjectIds \cup {InvalidId}
SelectableIds == ObjectIds \cup {GuestConversationId}

VARIABLES
    conversations,         \* the Conversation collection
    objectIdCount,         \* the ObjectIds handed out so far
    response,              \* the response to the last request sent past the component
    sessionStorage,        \* the guest conversation of the browser session
    isSignedIn,            \* the user the browser is signed in as, or Guest
    finalConfig,           \* the component's configuration
    messages,              \* the component's messages
    isLoading,             \* an exchange is in flight
    currentConversation,   \* the id of the component's current conversation, or NoId
    submitted,             \* what the submitMessage in flight closed over
    autoSaveTimer,         \* the timeout of the auto-save effect is pending
    lastChatError,         \* window.__lastChatError: the last error handleError was given
    streamRead             \* the data lines the reader delivered in the last exchange

storageVars ==
    <<conversations, objectIdCount, response, sessionStorage, isSignedIn, finalConfig,
      messages, isLoading, currentConversation, submitted, autoSaveTimer, lastChatError,
      streamRead>>

\* createError(type, message): what handleError is given
ChatError(type, message) == [type |-> type, message |-> message]
NoChatError == ChatError("none", "")

\* the data lines of a reply that streams to its end
ReplyStream == <<ChunkData(finalAssistantMessage.content), FinalChunk>>

\* the data lines of the streams that hold an errorChunk: every model failed, or
\* the completion threw behind its first chunk
ErrorStreams ==
    {<<ErrorChunk("chat-rag-groq", "rate limit reached")>>,
     <<ErrorChunk("chat-groq", "model decommissioned")>>,
     <<ChunkData("The fees"), ErrorChunk("chat-rag-groq", "connection lost")>>}

\* the read loop of submitMessage over the data lines from the i-th on: a line
\* with an error field throws inside the try block around the parsing of the
\* line, whose catch block logs it, and the loop goes on; a line with content
\* adds it to accumulatedContent
RECURSIVE ReadLines(_, _, _)
ReadLines(lines, i, accumulatedContent) ==
    IF i > Len(lines) THEN accumulatedContent
    ELSE IF lines[i].error # NoError THEN ReadLines(lines, i + 1, accumulatedContent)
    ELSE ReadLines(lines, i + 1, accumulatedContent \o lines[i].content)

\* the errorText the catch block of submitMessage derives from the message of an
\* Error that is no TypeError
ErrorTextFor(errorMessage) ==
    IF Includes(errorMessage, "API key")
        THEN "API authentication failed. Please check your API key configuration."
    ELSE IF Includes(errorMessage, "quota") \/ Includes(errorMessage, "rate limit")
        THEN "Rate limit exceeded. Please wait a moment and try again."
    ELSE IF errorMessage # "" /\ errorMessage # "Unknown error occurred" THEN errorMessage
    ELSE errorText

NoResponse ==
    [method |-> "none", caller |-> Guest, requestId |-> NoId, body |-> MessagesBody(<<>>),
     status |-> 0, isGuest |-> FALSE, id |-> NoId, messages |-> <<>>, ids |-> {}]

\* the response r to the request of a caller, with the request it answers
Response(method, caller, requestId, body, r) ==
    [method |-> method, caller |-> caller, requestId |-> requestId, body |-> body,
     status |-> r.status, isGuest |-> r.isGuest, id |-> r.id, messages |-> r.messages,
     ids |-> r.ids]

NoSession == [exists |-> FALSE, messages |-> <<>>]
NoSubmit == [conversationId |-> NoId, newMessages |-> <<>>]

EmptyCollection == [id \in ObjectIds |-> NoConversation]

\* the collection after alice has saved one exchange
EarlierCollection ==
    [EmptyCollection EXCEPT ![1] = Conversation("alice", <<userMessage, finalAssistantMessage>>)]

\* a collection with count ObjectIds handed out, and a mounted component, signed
\* in as user with config
Mounted(user, config, collection, count) ==
    /\ conversations = collection
    /\ objectIdCount = count
    /\ response = NoResponse
    /\ sessionStorage = NoSession
    /\ isSignedIn = user
    /\ finalConfig = config
    /\ messages = defaultMessages
    /\ isLoading = FALSE
    /\ currentConversation = NoId
    /\ submitted = NoSubmit
    /\ autoSaveTimer = FALSE
    /\ lastChatError = NoChatError
    /\ streamRead = <<>>

\* the auto-save effect after a render that changed messages or
\* currentConversation: the old timeout is cleared, and a new one is set when
\* storage and auto-save are on, the user is signed in and there is more than
\* the greeting
AutoSaveEffect(newMessages) ==
    /\ finalConfig.enableStorage
    /\ finalConfig.autoSave
    /\ isSignedIn # Guest
    /\ Len(newMessages) > 1

\* a request to the API from any client, answered by handler result r
Answer(method, caller, requestId, body, r) ==
    /\ response' = Response(method, caller, requestId, body, r)
    /\ conversations' = r.conversations
    /\ objectIdCount' = r.objectIdCount
    /\ UNCHANGED <<sessionStorage, isSignedIn, finalConfig, messages, isLoading,
                   currentConversation, submitted, autoSaveTimer, lastChatError, streamRead>>
    /\ UNCHANGED <<storeVars, groqVars>>

\* one request per handler; the ObjectIds of the model run out at MaxConversations
PostRequest(caller, body, connected) ==
    /\ objectIdCount < MaxConversations
    /\ Answer("POST", caller, NoId, body,
              POST(conversations, objectIdCount, caller, body, GuestConversationId, connected))

ListRequest(caller, connected) ==
    Answer("GET", caller, NoId, MessagesBody(<<>>),
           GET(conversations, objectIdCount, caller, connected))

GetRequest(caller, id, connected) ==
    Answer("GETById", caller, id, MessagesBody(<<>>),
           GETById(conversations, objectIdCount, caller, id, connected))

PutRequest(caller, id, body, connected) ==
    Answer("PUT", caller, id, body,
           PUT(conversations, objectIdCount, caller, id, body, connected))

DeleteRequest(caller, id, connected) ==
    Answer("DELETE", caller, id, MessagesBody(<<>>),
           DELETE(conversations, objectIdCount, caller, id, connected))

\* what a service call of the component leaves behind
Stored(s) ==
    /\ conversations' = s.conversations
    /\ objectIdCount' = s.objectIdCount
    /\ sessionStorage' = s.sessionStorage

\* submitMessage up to the await of fetch: the user's message and the empty
\* placeholder of the reply are appended
SubmitMessage ==
    /\ ~isLoading
    /\ Len(messages) < 1 + 2 * MaxExchanges
    /\ submitted' = [conversationId |-> currentConversation,
                     newMessages |-> Append(messages, userMessage)]
    /\ messages' = messages \o <<userMessage, assistantMessage>>
    /\ isLoading' = TRUE
    /\ autoSaveTimer' = AutoSaveEffect(messages')
    /\ response' = NoResponse
    /\ streamRead' = <<>>
    /\ UNCHANGED <<conversations, objectIdCount, sessionStorage, isSignedIn, finalConfig,
                   currentConversation, lastChatError>>
    /\ UNCHANGED <<storeVars, groqVars>>

\* setMessages(prev => prev.map(...)): the placeholder of this exchange, when it
\* is still among the messages, gets the content
FillPlaceholder(content) ==
    IF messages = Append(submitted.newMessages, assistantMessage)
    THEN Append(submitted.newMessages, Message("assistant", content))
    ELSE messages

\* submitMessage behind the read loop, which has read lines to the end of the
\* stream: the placeholder holds accumulatedContent, and the save path runs with
\* the conversation and the messages the call closed over; an error of the save is
\* given to handleError
ExchangeEnds(lines, connected) ==
    LET accumulatedContent == ReadLines(lines, 1, "")
    IN  /\ isLoading
        /\ streamRead' = lines
        /\ messages' = FillPlaceholder(accumulatedContent)
        /\ isLoading' = FALSE
        /\ submitted' = NoSubmit
        /\ response' = NoResponse
        /\ IF finalConfig.autoSave /\ finalConfig.enableStorage
           THEN LET s == saveMessages(conversations, objectIdCount, sessionStorage, isSignedIn,
                                      submitted.conversationId,
                                      Append(submitted.newMessages,
                                             Message("assistant", accumulatedContent)),
                                      isSignedIn # Guest, connected)
                IN  /\ Stored(s)
                    /\ currentConversation' = IF s.saved THEN s.id ELSE currentConversation
                    /\ lastChatError' =
                           IF s.threw THEN ChatError("storage", "Message sent but failed to save")
                           ELSE lastChatError
           ELSE UNCHANGED <<conversations, objectIdCount, sessionStorage, currentConversation,
                            lastChatError>>
        /\ autoSaveTimer' =
               IF messages' # messages \/ currentConversation' # currentConversation
               THEN AutoSaveEffect(messages') ELSE autoSaveTimer
        /\ UNCHANGED <<isSignedIn, finalConfig>>
        /\ UNCHANGED <<storeVars, groqVars>>

\* submitMessage behind the stream: the reply is complete, the save path runs
\* with the conversation and the messages the call closed over
ExchangeCompletes(connected) == ExchangeEnds(ReplyStream, connected)

\* submitMessage in its catch block: the placeholder gets the error text
ExchangeFails ==
    /\ isLoading
    /\ messages' = FillPlaceholder(errorText)
    /\ isLoading' = FALSE
    /\ submitted' = NoSubmit
    /\ response' = NoResponse
    /\ autoSaveTimer' = IF messages' # messages THEN AutoSaveEffect(messages') ELSE autoSaveTimer
    /\ lastChatError' = ChatError("api", errorText)
    /\ streamRead' = <<>>
    /\ UNCHANGED <<conversations, objectIdCount, sessionStorage, isSignedIn, finalConfig,
                   currentConversation>>
    /\ UNCHANGED <<storeVars, groqVars>>

\* the timeout of the auto-save effect fires; what saveMessages returns is dropped,
\* an error it throws is given to handleError
AutoSave(connected) ==
    /\ autoSaveTimer
    /\ autoSaveTimer' = FALSE
    /\ LET s == saveMessages(conversations, objectIdCount, sessionStorage, isSignedIn,
                             currentConversation, messages, TRUE, connected)
       IN  /\ Stored(s)
           /\ lastChatError' =
                  IF s.threw THEN ChatError("storage", "Failed to auto-save conversation")
                  ELSE lastChatError
    /\ response' = NoResponse
    /\ UNCHANGED <<isSignedIn, finalConfig, messages, isLoading, currentConversation,
                   submitted, streamRead>>
    /\ UNCHANGED <<storeVars, groqVars>>

\* handleSaveConversation: the Save button
HandleSaveConversation(connected) ==
    /\ finalConfig.enableStorage
    /\ Len(messages) > 1
    /\ LET s == saveMessages(conversations, objectIdCount, sessionStorage, isSignedIn,
                             currentConversation, messages, isSignedIn # Guest, connected)
       IN  /\ Stored(s)
           /\ currentConversation' = IF s.saved THEN s.id ELSE currentConversation
           /\ lastChatError' =
                  IF s.threw THEN ChatError("storage", "Failed to save conversation")
                  ELSE lastChatError
    /\ autoSaveTimer' =
           IF currentConversation' # currentConversation
           THEN AutoSaveEffect(messages) ELSE autoSaveTimer
    /\ response' = NoResponse
    /\ UNCHANGED <<isSignedIn, finalConfig, messages, isLoading, submitted, streamRead>>
    /\ UNCHANGED <<storeVars, groqVars>>

\* handleNewConversation
HandleNewConversation ==
    /\ currentConversation' = NoId
    /\ messages' = defaultMessages
    /\ autoSaveTimer' =
           IF messages' # messages \/ currentConversation' # currentConversation
           THEN AutoSaveEffect(messages') ELSE autoSaveTimer
    /\ response' = NoResponse
    /\ UNCHANGED <<conversations, objectIdCount, sessionStorage, isSignedIn, finalConfig,
                   isLoading, submitted, lastChatError, streamRead>>
    /\ UNCHANGED <<storeVars, groqVars>>

\* handleSelectConversation: a click on a conversation of the sidebar
HandleSelectConversation(conversationId, connected) ==
    /\ finalConfig.enableStorage
    /\ LET s == getUnifiedConversation(conversations, objectIdCount, sessionStorage,
                                       isSignedIn, conversationId, isSignedIn # Guest,
                                       connected)
       IN  /\ s.saved
           /\ Stored(s)
           /\ currentConversation' = s.id
           /\ messages' = s.messages
    /\ autoSaveTimer' =
           IF messages' # messages \/ currentConversation' # currentConversation
           THEN AutoSaveEffect(messages') ELSE autoSaveTimer
    /\ response' = NoResponse
    /\ UNCHANGED <<isSignedIn, finalConfig, isLoading, submitted, lastChatError, streamRead>>
    /\ UNCHANGED <<storeVars, groqVars>>

(***************************************************************************)
(* The Groq handlers.  start(controller) suspends in                       *)
(* await groq.chat.completions.create() once per model and in the          *)
(* for await loop once per chunk; one action is the code between two of    *)
(* these awaits.                                                           *)
(***************************************************************************)

\* before the request
NoGroqRequest ==
    /\ route = "none"
    /\ httpStatus = 0
    /\ at = "idle"
    /\ tried = <<>>
    /\ chatCompletion = NoModel
    /\ lastError = NoError
    /\ chunksRead = 0
    /\ enqueued = <<>>
    /\ closes = 0

\* POST up to the return of the Response: the checks of the message and of the
\* API key, for chat-rag-groq the retrieval (retrieved: it returned a context),
\* then the stream, whose start() runs up to its first await
GroqPOST(h, message, hasKey, retrieved) ==
    /\ at = "idle"
    /\ route' = h
    /\ IF message = "" THEN httpStatus' = 400 /\ at' = "answered"
       ELSE IF ~hasKey THEN httpStatus' = 500 /\ at' = "answered"
       ELSE IF h = "chat-rag-groq" /\ ~retrieved THEN httpStatus' = 500 /\ at' = "answered"
       ELSE httpStatus' = 200 /\ at' = "trying"
    /\ UNCHANGED <<tried, chatCompletion, lastError, chunksRead, enqueued, closes>>
    /\ UNCHANGED <<storeVars, storageVars>>

\* the end of create() for the next model that keeps the first error caught
CreateSettlesKeepingFirstError(outcome) ==
    LET model == models(route)[Len(tried) + 1]
        kept == IF lastError = NoError THEN outcome ELSE lastError
    IN  /\ at = "trying"
        /\ tried' = Append(tried, [model |-> model, outcome |-> outcome])
        /\ IF outcome = "ok"
           THEN /\ chatCompletion' = model
                /\ at' = "reading"
                /\ UNCHANGED <<lastError, enqueued, closes>>
           ELSE /\ lastError' = kept
                /\ UNCHANGED chatCompletion
                /\ IF Len(tried') < Len(models(route))
                   THEN at' = "trying" /\ UNCHANGED <<enqueued, closes>>
                   ELSE /\ enqueued' = Append(enqueued, ErrorChunk(route, kept))
                        /\ closes' = closes + 1
                        /\ at' = "closed"
        /\ UNCHANGED <<route, httpStatus, chunksRead>>
        /\ UNCHANGED <<storeVars, storageVars>>

\* the end of await groq.chat.completions.create() for the next model of the
\* list: on success the loop breaks; on an error the error is kept and the loop
\* goes on, and behind the last model lastError is thrown into the catch block,
\* which enqueues the errorChunk, and the stream is closed
CreateSettles(outcome) ==
    LET model == models(route)[Len(tried) + 1]
    IN  /\ at = "trying"
        /\ tried' = Append(tried, [model |-> model, outcome |-> outcome])
        /\ IF outcome = "ok"
           THEN /\ chatCompletion' = model
                /\ at' = "reading"
                /\ UNCHANGED <<lastError, enqueued, closes>>
           ELSE /\ lastError' = outcome
                /\ UNCHANGED chatCompletion
                /\ IF Len(tried') < Len(models(route))
                   THEN at' = "trying" /\ UNCHANGED <<enqueued, closes>>
                   ELSE /\ enqueued' = Append(enqueued, ErrorChunk(route, outcome))
                        /\ closes' = closes + 1
                        /\ at' = "closed"
        /\ UNCHANGED <<route, httpStatus, chunksRead>>
        /\ UNCHANGED <<storeVars, storageVars>>

\* one turn of the for await loop: a chunk with content is enqueued with done:false
NextChunk(content) ==
    /\ at = "reading"
    /\ chunksRead < MaxChunks
    /\ chunksRead' = chunksRead + 1
    /\ enqueued' = IF content # "" THEN Append(enqueued, ChunkData(content)) ELSE enqueued
    /\ UNCHANGED <<route, httpStatus, at, tried, chatCompletion, lastError, closes>>
    /\ UNCHANGED <<storeVars, storageVars>>

\* the end of the completion with the stream closed and no chunk sent for it
CompletionEndsUnsignalled ==
    /\ at = "reading"
    /\ closes' = closes + 1
    /\ at' = "closed"
    /\ UNCHANGED <<route, httpStatus, tried, chatCompletion, lastError, chunksRead, enqueued>>
    /\ UNCHANGED <<storeVars, storageVars>>

\* the completion ends: the finalChunk is enqueued and the stream is closed
CompletionEnds ==
    /\ at = "reading"
    /\ enqueued' = Append(enqueued, FinalChunk)
    /\ closes' = closes + 1
    /\ at' = "closed"
    /\ UNCHANGED <<route, httpStatus, tried, chatCompletion, lastError, chunksRead>>
    /\ UNCHANGED <<storeVars, storageVars>>

\* the completion throws while it is read: the catch block enqueues the
\* errorChunk for the error, and the stream is closed
CompletionThrows(message) ==
    /\ at = "reading"
    /\ enqueued' = Append(enqueued, ErrorChunk(route, message))
    /\ closes' = closes + 1
    /\ at' = "closed"
    /\ UNCHANGED <<route, httpStatus, tried, chatCompletion, lastError, chunksRead>>
    /\ UNCHANGED <<storeVars, storageVars>>

(***************************************************************************)
(* The singleton simpleRAGStore and the calls in flight on it.             *)
(*                                                                         *)
(* The store runs on one JavaScript thread: a call runs without            *)
(* interruption up to its next await, so one action is the code between    *)
(* two awaits.  initialize suspends once, in                               *)
(* await documentProcessor.processAbuRayyanDocument(); searchSimilar       *)
(* suspends in await this.initialize() when the store is not ready.        *)
(***************************************************************************)

\* the calls that may be in flight at once
Callers == {"c1", "c2"}

\* uuidv4() draws are counted; no load starts once MaxUuids of them are drawn
MaxUuids == 2

\* topK ranges over -1..MaxTopK
MaxTopK == 2

TopKs == -1..MaxTopK

Queries == {"", "is an", "xyz nonsense query", "Tuition fees", "tuition fees",
            "admission requirements", "fees (2024", "fees?"}

SearchOps == {"searchSimilar", "getRetrievalContext"}

vars == <<storeVars, storageVars, groqVars>>

Idle == [at |-> "idle", op |-> "none", initOk |-> FALSE]
Loading(op) == [at |-> "loading", op |-> op, initOk |-> FALSE]
Settled(op, ok) == [at |-> "settled", op |-> op, initOk |-> ok]

NoRead == [caller |-> "none", file |-> MissingFile]
NoReturn == [caller |-> "none", op |-> "none", outcome |-> "none", lazy |-> "no",
             query |-> "", topK |-> 0, chunks |-> <<>>, scores |-> <<>>, context |-> "",
             trimmedContext |-> ""]

\* a call that returns or throws without a search result
Plain(c, op, outcome, lazy) ==
    [caller |-> c, op |-> op, outcome |-> outcome, lazy |-> lazy,
     query |-> "", topK |-> 0, chunks |-> <<>>, scores |-> <<>>, context |-> "",
     trimmedContext |-> ""]

\* isReady()
isReady == isInitialized

\* getStats()
getStats ==
    [isInitialized |-> isInitialized,
     documentCount |-> IF Len(documents) > 0 THEN 1 ELSE 0,
     totalChunks |-> Len(documents)]

\* the readiness check left out
NeverInitialized(flag) == FALSE

\* initialize, line 23: the early return of a store that is already initialized
AlreadyInitialized(flag) == flag

\* searchSimilar or getRetrievalContext throws
ErrorReturn(c, op, lazy, query, topK) ==
    [caller |-> c, op |-> op, outcome |-> "error", lazy |-> lazy,
     query |-> query, topK |-> topK, chunks |-> <<>>, scores |-> <<>>, context |-> "",
     trimmedContext |-> ""]

\* searchSimilar returns r, and getRetrievalContext the context it assembles from r
ResultReturn(c, op, lazy, r, query, topK) ==
    [caller |-> c, op |-> op, outcome |-> "ok", lazy |-> lazy,
     query |-> query, topK |-> topK, chunks |-> r.chunks, scores |-> r.scores,
     context |-> IF op = "getRetrievalContext" THEN AssembleContext(r.chunks) ELSE "",
     trimmedContext |->
         IF op = "getRetrievalContext" THEN AssembleTrimmedContext(r.chunks) ELSE ""]

\* the error of initialize() swallowed: the search goes on over the cache as it is
SearchReturnSwallowed(c, op, lazy, initFailed, docs, query, topK) ==
    LET r == ScoreAndSelect(docs, query, topK)
    IN  IF r.threw THEN ErrorReturn(c, op, lazy, query, topK)
        ELSE ResultReturn(c, op, lazy, r, query, topK)

\* searchSimilar behind await this.initialize(), and getRetrievalContext behind
\* await this.searchSimilar(): what the call gives its caller.  initFailed is the
\* error initialize() threw; the catch blocks of both rethrow it, and the error
\* of a query word's pattern
SearchReturn(c, op, lazy, initFailed, docs, query, topK) ==
    IF initFailed THEN ErrorReturn(c, op, lazy, query, topK)
    ELSE LET r == ScoreAndSelect(docs, query, topK)
         IN  IF r.threw THEN ErrorReturn(c, op, lazy, query, topK)
             ELSE ResultReturn(c, op, lazy, r, query, topK)

\* the store after construction
Constructed ==
    /\ documents = <<>>
    /\ isInitialized = FALSE
    /\ uuidCount = 0
    /\ pc = [c \in Callers |-> Idle]
    /\ lastRead = NoRead
    /\ ret = NoReturn

Init ==
    /\ Constructed
    /\ Mounted(Guest, DEFAULT_CONFIG, EmptyCollection, 0)
    /\ NoGroqRequest


\* nothing of the last step is left to show
Quiet == lastRead = NoRead /\ ret = NoReturn

\* the start of a load: initialize() suspends in its await
StartLoad(c, op) ==
    /\ uuidCount < MaxUuids
    /\ pc' = [pc EXCEPT ![c] = Loading(op)]
    /\ lastRead' = NoRead
    /\ ret' = NoReturn

\* a direct call of initialize()
Initialize(c) ==
    /\ Quiet
    /\ pc[c].at = "idle"
    /\ \/ /\ AlreadyInitialized(isInitialized)
          /\ ret' = Plain(c, "initialize", "ok", "no")
          /\ lastRead' = NoRead
          /\ UNCHANGED <<documents, isInitialized, uuidCount, pc>>
       \/ /\ ~AlreadyInitialized(isInitialized)
          /\ StartLoad(c, "initialize")
          /\ UNCHANGED <<documents, isInitialized, uuidCount>>
    /\ UNCHANGED <<storageVars, groqVars>>

\* a search that sorts the chunk cache itself by score instead of a copy of it
SearchSortingCache(c, op, query, topK) ==
    /\ Quiet
    /\ pc[c].at = "idle"
    /\ \/ /\ isInitialized
          /\ ret' = SearchReturn(c, op, "no", FALSE, documents, query, topK)
          /\ documents' =
                 IF ret'.outcome # "ok" THEN documents
                 ELSE LET queryLower == ToLowerCase(query)
                          scored == [i \in 1..Len(documents) |->
                                        ScoreChunk(documents[i], queryLower,
                                                   QueryWords(queryLower))]
                          sorted == SortByScore(scored)
                      IN  [i \in 1..Len(sorted) |-> sorted[i].chunk]
          /\ lastRead' = NoRead
          /\ UNCHANGED <<isInitialized, uuidCount, pc>>
       \/ /\ ~isInitialized
          /\ StartLoad(c, op)
          /\ UNCHANGED <<documents, isInitialized, uuidCount>>
    /\ UNCHANGED <<storageVars, groqVars>>

\* searchSimilar(query, topK) or getRetrievalContext(query, topK) up to the first
\* await: on a ready store the whole call, otherwise the start of initialize()
Search(c, op, query, topK) ==
    /\ Quiet
    /\ pc[c].at = "idle"
    /\ \/ /\ isInitialized
          /\ ret' = SearchReturn(c, op, "no", FALSE, documents, query, topK)
          /\ lastRead' = NoRead
          /\ UNCHANGED <<documents, isInitialized, uuidCount, pc>>
       \/ /\ ~isInitialized
          /\ StartLoad(c, op)
          /\ UNCHANGED <<documents, isInitialized, uuidCount>>
    /\ UNCHANGED <<storageVars, groqVars>>

\* a reinitialize() that empties the cache and leaves the ready flag as it is
ReinitializeKeepingFlag(c) ==
    /\ Quiet
    /\ pc[c].at = "idle"
    /\ documents' = <<>>
    /\ StartLoad(c, "reinitialize")
    /\ UNCHANGED <<isInitialized, uuidCount>>
    /\ UNCHANGED <<storageVars, groqVars>>

\* reinitialize() up to the await inside its initialize()
Reinitialize(c) ==
    /\ Quiet
    /\ pc[c].at = "idle"
    /\ isInitialized' = FALSE
    /\ documents' = <<>>
    /\ StartLoad(c, "reinitialize")
    /\ UNCHANGED uuidCount
    /\ UNCHANGED <<storageVars, groqVars>>

\* initialize() behind its await: processAbuRayyanDocument has read file.  The
\* chunks are stored and the flag is set, or the error is rethrown.  A direct
\* initialize() or reinitialize() ends here; a search call goes on in Resume.
LoadSettles(c, file) ==
    LET r == ProcessAbuRayyanDocument(file, uuidCount)
        op == pc[c].op
    IN  /\ Quiet
        /\ pc[c].at = "loading"
        /\ lastRead' = [caller |-> c, file |-> file]
        /\ IF r.ok
           THEN /\ documents' = r.chunks
                /\ isInitialized' = TRUE
                /\ uuidCount' = uuidCount + Len(r.chunks)
           ELSE UNCHANGED <<documents, isInitialized, uuidCount>>
        /\ IF op \in SearchOps
           THEN /\ pc' = [pc EXCEPT ![c] = Settled(op, r.ok)]
                /\ ret' = NoReturn
           ELSE /\ pc' = [pc EXCEPT ![c] = Idle]
                /\ ret' = Plain(c, op, IF r.ok THEN "ok" ELSE "error",
                                IF r.ok THEN "loaded" ELSE "failed")
    /\ UNCHANGED <<storageVars, groqVars>>

\* searchSimilar behind await this.initialize(): query and topK are the arguments
\* of the suspended call, which nothing reads before this point
Resume(c, query, topK) ==
    /\ Quiet
    /\ pc[c].at = "settled"
    /\ ret' = SearchReturn(c, pc[c].op, IF pc[c].initOk THEN "loaded" ELSE "failed",
                           ~pc[c].initOk, documents, query, topK)
    /\ pc' = [pc EXCEPT ![c] = Idle]
    /\ lastRead' = NoRead
    /\ UNCHANGED <<documents, isInitialized, uuidCount>>
    /\ UNCHANGED <<storageVars, groqVars>>

\* the step after a read or a return
Continue ==
    /\ ~Quiet
    /\ lastRead' = NoRead
    /\ ret' = NoReturn
    /\ UNCHANGED <<documents, isInitialized, uuidCount, pc>>
    /\ UNCHANGED <<storageVars, groqVars>>

Next ==
    \/ \E c \in Callers :
        \/ Initialize(c)
        \/ \E op \in SearchOps, query \in Queries, topK \in TopKs : Search(c, op, query, topK)
        \/ Reinitialize(c)
        \/ \E file \in SourceFiles : LoadSettles(c, file)
        \/ \E query \in Queries, topK \in TopKs : Resume(c, query, topK)
    \/ Continue

Spec == Init /\ [][Next]_vars

\* the conversations API on its own, called by any client
ApiNext ==
    \E caller \in Requesters, connected \in BOOLEAN :
        \/ \E body \in Bodies : PostRequest(caller, body, connected)
        \/ ListRequest(caller, connected)
        \/ \E id \in RequestIds : GetRequest(caller, id, connected)
        \/ \E id \in RequestIds, body \in Bodies : PutRequest(caller, id, body, connected)
        \/ \E id \in RequestIds : DeleteRequest(caller, id, connected)

ApiSpec == Init /\ [][ApiNext]_vars

\* the component mounts for any user under any configuration, over a collection
\* that is empty or holds a conversation alice saved earlier
ClientInit ==
    /\ Constructed
    /\ \E user \in Requesters, config \in Configs, earlier \in BOOLEAN :
           /\ Mounted(user, config, IF earlier THEN EarlierCollection ELSE EmptyCollection,
                      IF earlier THEN 1 ELSE 0)
    /\ NoGroqRequest

\* the component on its own, its requests answered by the handlers
ClientNext ==
    \/ SubmitMessage
    \/ \E connected \in BOOLEAN :
           \/ ExchangeCompletes(connected)
           \/ \E lines \in ErrorStreams : ExchangeEnds(lines, connected)
           \/ AutoSave(connected)
           \/ HandleSaveConversation(connected)
           \/ \E id \in SelectableIds : HandleSelectConversation(id, connected)
    \/ ExchangeFails
    \/ HandleNewConversation

ClientSpec == ClientInit /\ [][ClientNext]_vars

\* one request to a Groq handler, with every outcome of the Groq API
GroqNext ==
    \/ \E h \in Handlers, message \in GroqMessages, hasKey \in BOOLEAN, retrieved \in BOOLEAN :
           GroqPOST(h, message, hasKey, retrieved)
    \/ \E outcome \in {"ok"} \cup ModelErrors : CreateSettles(outcome)
    \/ \E content \in Contents : NextChunk(content)
    \/ CompletionEnds
    \/ \E message \in StreamErrors : CompletionThrows(message)

GroqSpec == Init /\ [][GroqNext]_vars

(***************************************************************************)
(* The claims.                                                             *)
(***************************************************************************)

\* the step into this state returned a search result
ResultOf(ops) == ret.op \in ops /\ ret.outcome = "ok"

\* the score of a chunk for a query, as the map callback computes it
ScoreFor(chunk, query) ==
    ScoreChunk(chunk, ToLowerCase(query), QueryWords(ToLowerCase(query))).score

\* the chunks of the cache that score above 0 for a query
PositiveChunks(query) == {i \in 1..Len(documents) : ScoreFor(documents[i], query) > 0}

\* C1: every result of searchSimilar has as many scores as chunks, scores[i] is
\* the score computed for chunks[i], and the scores never increase along the result
C1_ResultRanked ==
    ResultOf({"searchSimilar"}) =>
        /\ Len(ret.chunks) = Len(ret.scores)
        /\ \A i \in 1..Len(ret.chunks) : ret.scores[i] = ScoreFor(ret.chunks[i], ret.query)
        /\ \A i \in 1..(Len(ret.scores) - 1) : ret.scores[i] >= ret.scores[i + 1]

\* C1 witness: a result of two chunks that the sort has put in the reverse of
\* their order in the cache
C1_Witness ==
    /\ ResultOf({"searchSimilar"})
    /\ Len(ret.chunks) = 2
    /\ ret.scores[1] > ret.scores[2]
    /\ ret.chunks[1].metadata.chunkIndex > ret.chunks[2].metadata.chunkIndex

\* C2: for a positive topK, searchSimilar returns at most topK chunks, and every
\* returned chunk has a score above 0
C2_TopKPositive ==
    (ResultOf({"searchSimilar"}) /\ ret.topK > 0) =>
        /\ Len(ret.chunks) <= ret.topK
        /\ \A i \in 1..Len(ret.scores) : ret.scores[i] > 0
        /\ \A i \in 1..Len(ret.chunks) : ScoreFor(ret.chunks[i], ret.query) > 0

\* C2 witness: more chunks score above 0 than topK allows, one chunk of the cache
\* scores 0, and the result holds exactly topK chunks
C2_Witness ==
    /\ ResultOf({"searchSimilar"})
    /\ ret.topK > 0
    /\ Len(ret.chunks) = ret.topK
    /\ Cardinality(PositiveChunks(ret.query)) > ret.topK
    /\ Cardinality(PositiveChunks(ret.query)) < Len(documents)

\* the callers whose initialize(), called directly or by a search, is loading
ColdLoads == {c \in Callers : pc[c].at = "loading" /\ pc[c].op # "reinitialize"}

\* C3: overlapping initialize() calls on a store that is not ready load the
\* document once: never are two of them loading at the same time
C3_SingleLoad == Cardinality(ColdLoads) <= 1

\* a step of reinitialize(): its call, or the end of the load it started
ReinitializeStep ==
    \E c \in Callers :
        \/ pc[c].at = "idle" /\ pc'[c] = Loading("reinitialize")
        \/ pc[c] = Loading("reinitialize") /\ pc'[c].at = "idle"

\* C4: once the store is ready, the chunk cache changes only in a step of
\* reinitialize(); no initialize() that is still running overwrites it
C4_CacheStable ==
    [][(isInitialized /\ documents' # documents) => ReinitializeStep]_vars

\* caller c calls initialize() in this step
InitializeCall(c) ==
    /\ Quiet
    /\ pc[c].at = "idle"
    /\ \/ pc'[c] = Loading("initialize")
       \/ ret'.caller = c /\ ret'.op = "initialize"

\* C5: initialize() on a ready store returns at once: it starts no load and
\* leaves the chunk cache, the ready flag and the uuids drawn as they are
C5_InitializeIdempotent ==
    [][\A c \in Callers :
          (isInitialized /\ InitializeCall(c)) =>
              /\ ret' = Plain(c, "initialize", "ok", "no")
              /\ UNCHANGED <<documents, isInitialized, uuidCount, pc>>]_vars

\* C5 witness: initialize() has just returned from a ready store without loading
C5_Witness ==
    /\ ret = Plain(ret.caller, "initialize", "ok", "no")
    /\ ret.caller \in Callers
    /\ isInitialized
    /\ Len(documents) > 0

\* C6: a search that had to initialize the store returns a result only with the
\* store ready, and the result is the scoring of the loaded chunk set
C6_LazySearchReady ==
    (ResultOf(SearchOps) /\ ret.lazy # "no") =>
        /\ isReady
        /\ Len(documents) > 0
        /\ ret.chunks = ScoreAndSelect(documents, ret.query, ret.topK).chunks

\* the files whose load fails: the file is missing, or mammoth cannot read it
UnloadableFiles == {MissingFile, CorruptFile}

\* C7: when the load of the document fails, initialize() throws to its caller,
\* the ready flag and the chunk cache stay as they are (not ready, empty), and a
\* search whose initialize() failed throws too: it returns neither an empty
\* result nor the fallback message
C7_LoadFailureSurfaces ==
    [][\A c \in Callers :
          /\ (lastRead'.caller = c /\ lastRead'.file \in UnloadableFiles) =>
                /\ UNCHANGED <<documents, isInitialized>>
                /\ ~isInitialized => (~isInitialized' /\ documents' = <<>>)
                /\ IF pc[c].op \in SearchOps
                   THEN pc'[c] = Settled(pc[c].op, FALSE)
                   ELSE ret'.caller = c /\ ret'.outcome = "error"
          /\ (pc[c].at = "settled" /\ ~pc[c].initOk /\ pc'[c].at = "idle") =>
                /\ ret'.caller = c
                /\ ret'.op = pc[c].op
                /\ ret'.outcome = "error"
                /\ ret'.chunks = <<>>
                /\ ret'.context # FallbackMessage]_vars

\* C7 witness: a search whose initialize() failed has just thrown, on a store
\* that is not ready and holds no chunk
C7_Witness ==
    /\ ret.op \in SearchOps
    /\ ret.lazy = "failed"
    /\ ret.outcome = "error"
    /\ ~isReady
    /\ getStats.totalChunks = 0

\* C8: on a ready store a search never throws, whatever the query
C8_SearchNeverThrows ==
    (ret.op \in SearchOps /\ ret.lazy = "no") => ret.outcome = "ok"

\* C9: a query without a token longer than 2 characters gives an empty chunk
\* list, and getRetrievalContext then gives the fallback message
C9_ShortTokensFindNothing ==
    (ResultOf(SearchOps) /\ QueryWords(ToLowerCase(ret.query)) = <<>>) =>
        /\ ret.chunks = <<>>
        /\ ret.op = "getRetrievalContext" => ret.context = FallbackMessage

\* the cache holds the one chunk of the school document
SchoolLoaded == Len(documents) = 1 /\ documents[1].content = SchoolText

\* C10: over the one-chunk school document the query "xyz nonsense query" gives
\* an empty chunk list, and getRetrievalContext gives the fallback message
C10_NonsenseFindsNothing ==
    (ResultOf(SearchOps) /\ SchoolLoaded /\ ret.query = "xyz nonsense query") =>
        /\ ret.chunks = <<>>
        /\ ret.op = "getRetrievalContext" => ret.context = FallbackMessage

\* the chunk holds the query as a contiguous substring, case aside
HoldsPhrase(chunk, query) == Includes(ToLowerCase(chunk.content), ToLowerCase(query))

\* what the query words add to the score of a chunk
WordPart(chunk, query) ==
    WordScore(ToLowerCase(chunk.content), QueryWords(ToLowerCase(query)), 1)

\* what the academy terms add to the score of a chunk
TermPart(chunk) == TermScore(ToLowerCase(chunk.content), 1)

\* chunk a holds the query contiguously, chunk b does not, and the query words
\* and the academy terms add the same to both
PhraseOnlyDiffers(a, b, query) ==
    /\ HoldsPhrase(a, query)
    /\ ~HoldsPhrase(b, query)
    /\ WordPart(a, query) = WordPart(b, query)
    /\ TermPart(a) = TermPart(b)

\* C11: of two returned chunks that differ in nothing the score reads but that
\* one holds the query as a contiguous substring, that one scores strictly higher
C11_PhraseBonus ==
    ResultOf({"searchSimilar"}) =>
        \A i, j \in 1..Len(ret.chunks) :
            PhraseOnlyDiffers(ret.chunks[i], ret.chunks[j], ret.query) =>
                ret.scores[i] > ret.scores[j]

\* C11 witness: a result with such a pair of chunks, for a query of two words
C11_Witness ==
    /\ ResultOf({"searchSimilar"})
    /\ Len(QueryWords(ToLowerCase(ret.query))) = 2
    /\ \E i, j \in 1..Len(ret.chunks) :
           /\ PhraseOnlyDiffers(ret.chunks[i], ret.chunks[j], ret.query)
           /\ WordPart(ret.chunks[j], ret.query) > 0

\* the number of whole-word occurrences of a word in a chunk
Mentions(chunk, word) ==
    CountMatches(NewWordRegExp(word).terms, ToLowerCase(chunk.content), 1)

\* the cache is a two-chunk document: chunk a holds the phrase "tuition fees",
\* chunk b mentions "tuition" and "fees" but never side by side
TuitionScenario(a, b) ==
    /\ Len(documents) = 2
    /\ {a, b} = {1, 2}
    /\ HoldsPhrase(documents[a], "tuition fees")
    /\ ~HoldsPhrase(documents[b], "tuition fees")
    /\ Mentions(documents[b], "tuition") > 0
    /\ Mentions(documents[b], "fees") > 0

\* searchSimilar("tuition fees") has returned, with a topK that lets both chunks in
TuitionSearch ==
    /\ ResultOf({"searchSimilar"})
    /\ ret.query = "tuition fees"
    /\ ret.topK >= 2

\* the points of the query words and the academy terms in chunk b exceed those
\* in chunk a by less than the phrase bonus
WithinPhraseBonus(a, b, query) ==
    (WordPart(b, query) + TermPart(b)) - (WordPart(a, query) + TermPart(a)) < PhraseWeight

\* C12 as stated: over every such two-chunk document searchSimilar("tuition fees")
\* returns the chunk with the phrase before the chunk with the scattered words
C12_PhraseChunkFirst ==
    \A a, b \in 1..2 :
        (TuitionSearch /\ TuitionScenario(a, b)) =>
            ret.chunks = <<documents[a], documents[b]>>

\* C12 amended: the chunk with the phrase comes first when the scattered chunk's
\* word occurrences and academy terms outweigh its own by less than the phrase bonus
C12_PhraseChunkFirstWithinBonus ==
    \A a, b \in 1..2 :
        (TuitionSearch /\ TuitionScenario(a, b)
             /\ WithinPhraseBonus(documents[a], documents[b], ret.query)) =>
            ret.chunks = <<documents[a], documents[b]>>

\* C12 witness: the scattered chunk precedes the phrase chunk in the cache and
\* the result has them the other way round
C12_Witness ==
    /\ TuitionSearch
    /\ TuitionScenario(2, 1)
    /\ WithinPhraseBonus(documents[2], documents[1], ret.query)
    /\ ret.chunks = <<documents[2], documents[1]>>

\* a search for "admission requirements" over the one-chunk school document has
\* returned, with a topK that lets a chunk in
AdmissionSearch(ops) ==
    /\ ResultOf(ops)
    /\ SchoolLoaded
    /\ ret.query = "admission requirements"
    /\ ret.topK >= 1

\* the search has found the one chunk, with a score above 0
FoundTheChunk ==
    /\ ret.chunks = <<documents[1]>>
    /\ Len(ret.scores) = 1
    /\ ret.scores[1] > 0

\* the context of simple-rag-store.ts for the one school chunk
LabelledSchoolContext == ContextHeader \o "[Document 1]:\n" \o SchoolText \o "\n\n"

\* C13 as stated: the search finds the one chunk with a score above 0, and
\* getRetrievalContext returns exactly the content of that chunk
C13_ContextIsContent ==
    /\ AdmissionSearch(SearchOps) => FoundTheChunk
    /\ AdmissionSearch({"getRetrievalContext"}) =>
           /\ ret.context = documents[1].content
           /\ ret.trimmedContext = documents[1].content

\* C13 amended: the search finds the one chunk with a score above 0; the context
\* is the content alone in the revision that trims, and the content under the
\* header and the label [Document 1] in simple-rag-store.ts
C13_ContextHoldsContent ==
    /\ AdmissionSearch(SearchOps) => FoundTheChunk
    /\ AdmissionSearch({"getRetrievalContext"}) =>
           /\ ret.context = LabelledSchoolContext
           /\ ret.trimmedContext = documents[1].content

\* C13 witness: getRetrievalContext has answered "admission requirements" over the
\* school document with the labelled content
C13_Witness ==
    /\ AdmissionSearch({"getRetrievalContext"})
    /\ FoundTheChunk
    /\ Includes(ret.context, SchoolText)
    /\ ret.trimmedContext = SchoolText

\* C14: getRetrievalContext never returns the empty string, in either revision:
\* for an empty result it returns the fixed fallback message of its revision,
\* and for a result of at least one chunk a context that is not empty
C14_ContextNeverEmpty ==
    ResultOf({"getRetrievalContext"}) =>
        /\ ret.context # ""
        /\ ret.trimmedContext # ""
        /\ ret.chunks = <<>> =>
               /\ ret.context = FallbackMessage
               /\ ret.trimmedContext = ContactFallbackMessage
               /\ FallbackMessage # ""
               /\ ContactFallbackMessage # ""

\* C14 witness: getRetrievalContext has found nothing in a loaded document and
\* has returned the fallback message
C14_Witness ==
    /\ ResultOf({"getRetrievalContext"})
    /\ Len(documents) > 0
    /\ ret.topK > 0
    /\ ret.chunks = <<>>
    /\ ret.context = FallbackMessage

\* C15: the chunk set splitTextIntoChunks has produced for the cache numbers its
\* chunks 0, 1, ..., n-1 in sequence order, and every chunk's totalChunks is n
C15_ChunkIndexContiguous ==
    \A i \in 1..Len(documents) :
        /\ documents[i].metadata.chunkIndex = i - 1
        /\ documents[i].metadata.totalChunks = Len(documents)

\* C15 witness: a chunk set of three chunks is in the cache
C15_Witness ==
    /\ isInitialized
    /\ Len(documents) = 3
    /\ documents[3].metadata.chunkIndex = 2

\* a search on the ready store runs and returns in this step
ReadySearchStep ==
    /\ isInitialized
    /\ Quiet
    /\ ret'.op \in SearchOps
    /\ ret'.lazy = "no"

\* C16: searchSimilar and getRetrievalContext on a ready store leave the chunk
\* cache (its order and every chunk record) and the ready flag as they were,
\* whatever the query and topK and whether the call returns or throws
C16_SearchLeavesStore ==
    [][ReadySearchStep => (documents' = documents /\ isInitialized' = isInitialized)]_vars

\* C16 witness: a search on the ready store has returned the chunks in another
\* order than the cache holds them, and the cache still has its own order
C16_Witness ==
    /\ ResultOf(SearchOps)
    /\ ret.lazy = "no"
    /\ isInitialized
    /\ Len(ret.chunks) = 2
    /\ ret.chunks[1].metadata.chunkIndex > ret.chunks[2].metadata.chunkIndex
    /\ \A i \in 1..Len(documents) : documents[i].metadata.chunkIndex = i - 1

\* the places of the cache whose chunk is in the result
Returned == {d \in 1..Len(documents) : \E i \in 1..Len(ret.chunks) : ret.chunks[i] = documents[d]}

\* C17: chunks of equal score come back in their chunk order, the lower
\* chunkIndex first, and a chunk the cut has dropped while a chunk of the same
\* score came back has the higher chunkIndex of the two
C17_TiesKeepChunkOrder ==
    ResultOf({"searchSimilar"}) =>
        /\ \A i, j \in 1..Len(ret.chunks) :
               (i < j /\ ret.scores[i] = ret.scores[j]) =>
                   ret.chunks[i].metadata.chunkIndex < ret.chunks[j].metadata.chunkIndex
        /\ \A d \in 1..Len(documents), i \in 1..Len(ret.chunks) :
               (d \notin Returned /\ ScoreFor(documents[d], ret.query) = ret.scores[i]) =>
                   ret.chunks[i].metadata.chunkIndex < documents[d].metadata.chunkIndex

\* C17 witness: two chunks of the cache tie, and the cut to topK = 1 has kept
\* the first of them and dropped the second
C17_Witness ==
    /\ ResultOf({"searchSimilar"})
    /\ ret.topK = 1
    /\ Len(ret.chunks) = 1
    /\ \E d \in 1..Len(documents) :
           /\ d \notin Returned
           /\ ScoreFor(documents[d], ret.query) = ret.scores[1]
           /\ ret.chunks[1].metadata.chunkIndex < documents[d].metadata.chunkIndex

\* the operations on one stored conversation
ByIdMethods == {"GETById", "PUT", "DELETE"}

\* this step answers a request of one of the methods with a success
Succeeds(methods) ==
    /\ response'.method \in methods
    /\ response'.status = 200

\* C18: a GET, PUT or DELETE on /api/conversations/[id] succeeds only for a caller
\* with a session, on a conversation whose userId is the caller's, and no other
\* request by id changes the collection
C18_OwnerOnly ==
    [][/\ Succeeds(ByIdMethods) =>
              /\ response'.caller # Guest
              /\ conversations[response'.requestId].userId = response'.caller
       /\ (response'.method \in ByIdMethods /\ conversations' # conversations) =>
              Succeeds(ByIdMethods)]_vars

\* this step answers POST /api/conversations for a caller without session
GuestPost ==
    /\ response'.method = "POST"
    /\ response'.caller = Guest

\* the response carries the submitted messages as a guest conversation
GuestData ==
    /\ response'.status = 200
    /\ response'.isGuest
    /\ response'.messages = response'.body.messages

ExchangeAtRest ==
    /\ ~isLoading
    /\ ~autoSaveTimer
    /\ Len(messages) > 1
    /\ messages[Len(messages)] = finalAssistantMessage

\* C20: for a signed-in user with storage and auto-save on, once an exchange has
\* completed and the save paths have run, the component's current conversation
\* is a conversation stored in the collection
C20_ExchangeSaved ==
    (isSignedIn # Guest /\ finalConfig.enableStorage /\ finalConfig.autoSave
         /\ ExchangeAtRest) =>
        /\ currentConversation \in ObjectIds
        /\ conversations[currentConversation].exists

\* the text holds part from position p on
OccursAt(text, part, p) == SubSeq(text, p, p + Len(part) - 1) = part

\* the label simple-rag-store.ts puts before the i-th chunk
DocumentLabel(i) == "[Document " \o NumberToString(i) \o "]:\n"

BlankLine == "\n\n"

\* the place of the i-th content in the context of the revision that trims:
\* behind the contents before it and a blank line after each of them
RECURSIVE PlainPlace(_, _)
PlainPlace(chunks, i) ==
    IF i = 1 THEN 1
    ELSE PlainPlace(chunks, i - 1) + Len(chunks[i - 1].content) + Len(BlankLine)

\* the place of the i-th label in the context of simple-rag-store.ts: behind the
\* header and, for every chunk before it, its label, its content and a blank line
RECURSIVE LabelPlace(_, _)
LabelPlace(chunks, i) ==
    IF i = 1 THEN Len(ContextHeader) + 1
    ELSE LabelPlace(chunks, i - 1) + Len(DocumentLabel(i - 1))
             + Len(chunks[i - 1].content) + Len(BlankLine)

\* C21: for a result that is not empty the context holds the content of every
\* returned chunk once, in rank order, a blank line between consecutive chunks
\* and nothing else but the header, the labels and the closing blank line of
\* simple-rag-store.ts
C21_ContextInRankOrder ==
    (ResultOf({"getRetrievalContext"}) /\ ret.chunks # <<>>) =>
        LET n == Len(ret.chunks)
        IN  /\ \A i \in 1..n :
                   /\ OccursAt(ret.trimmedContext, ret.chunks[i].content,
                               PlainPlace(ret.chunks, i))
                   /\ OccursAt(ret.context, DocumentLabel(i) \o ret.chunks[i].content,
                               LabelPlace(ret.chunks, i))
            /\ \A i \in 1..(n - 1) :
                   /\ OccursAt(ret.trimmedContext, BlankLine,
                               PlainPlace(ret.chunks, i + 1) - Len(BlankLine))
                   /\ OccursAt(ret.context, BlankLine,
                               LabelPlace(ret.chunks, i + 1) - Len(BlankLine))
            /\ OccursAt(ret.context, ContextHeader, 1)
            /\ Len(ret.trimmedContext) =
                   PlainPlace(ret.chunks, n) + Len(ret.chunks[n].content) - 1
            /\ Len(ret.context) =
                   LabelPlace(ret.chunks, n) + Len(DocumentLabel(n))
                       + Len(ret.chunks[n].content) + Len(BlankLine) - 1

\* C21 witness: a context of two chunks that the ranking has put in the reverse
\* of their order in the cache
C21_Witness ==
    /\ ResultOf({"getRetrievalContext"})
    /\ Len(ret.chunks) = 2
    /\ ret.chunks[1].metadata.chunkIndex > ret.chunks[2].metadata.chunkIndex
    /\ OccursAt(ret.trimmedContext, ret.chunks[1].content, 1)

\* the number of places where the word stands in the text as it is written, with
\* no word character before it and none behind it
WholeWordOccurrences(text, word) ==
    Cardinality({p \in 1..(Len(text) - Len(word) + 1) :
                    /\ OccursAt(text, word, p)
                    /\ (p = 1 \/ CharAt(text, p - 1) \notin WordChars)
                    /\ (p + Len(word) > Len(text)
                            \/ CharAt(text, p + Len(word)) \notin WordChars)})

\* WordWeight for every whole-word occurrence of every query token from the i-th on
RECURSIVE OccurrencePoints(_, _, _)
OccurrencePoints(contentLower, queryWords, i) ==
    IF i > Len(queryWords) THEN 0
    ELSE WholeWordOccurrences(contentLower, queryWords[i]) * WordWeight
             + OccurrencePoints(contentLower, queryWords, i + 1)

\* C22: beside the phrase bonus and the academy terms, the score of a returned
\* chunk is 2 for every whole-word occurrence of every query token longer than 2
\* characters, and nothing else
C22_WholeWordPoints ==
    ResultOf({"searchSimilar"}) =>
        \A i \in 1..Len(ret.chunks) :
            LET contentLower == ToLowerCase(ret.chunks[i].content)
                queryLower == ToLowerCase(ret.query)
            IN  ret.scores[i] = PhraseScore(contentLower, queryLower)
                                    + OccurrencePoints(contentLower, QueryWords(queryLower), 1)
                                    + TermScore(contentLower, 1)

\* the scoring of whole words for the queries whose tokens are letters only
C22_PlainTokens == ret.query # "fees?" => C22_WholeWordPoints

\* the number of places where the term stands in the text
Occurrences(text, term) ==
    Cardinality({p \in 1..(Len(text) - Len(term) + 1) : OccursAt(text, term, p)})

\* one point for every occurrence of every academy term from the i-th on
RECURSIVE TermOccurrencePoints(_, _)
TermOccurrencePoints(contentLower, i) ==
    IF i > Len(academyTerms) THEN 0
    ELSE Occurrences(contentLower, academyTerms[i]) * TermWeight
             + TermOccurrencePoints(contentLower, i + 1)

\* C23: the part of a returned chunk's score that comes from the academy terms is
\* the total number of occurrences of the seven terms in the chunk, one point each
C23_PointPerOccurrence ==
    ResultOf({"searchSimilar"}) =>
        \A i \in 1..Len(ret.chunks) :
            LET contentLower == ToLowerCase(ret.chunks[i].content)
                queryLower == ToLowerCase(ret.query)
            IN  ret.scores[i] - PhraseScore(contentLower, queryLower)
                              - WordScore(contentLower, QueryWords(queryLower), 1)
                    = TermOccurrencePoints(contentLower, 1)

\* the same part of the score for the chunks in which no academy term stands twice
C23_SingleOccurrences ==
    ResultOf({"searchSimilar"}) =>
        \A i \in 1..Len(ret.chunks) :
            LET contentLower == ToLowerCase(ret.chunks[i].content)
                queryLower == ToLowerCase(ret.query)
            IN  (\A t \in 1..Len(academyTerms) : Occurrences(contentLower, academyTerms[t]) <= 1)
                    => ret.scores[i] - PhraseScore(contentLower, queryLower)
                                     - WordScore(contentLower, QueryWords(queryLower), 1)
                           = TermOccurrencePoints(contentLower, 1)

\* a file that is read without error and holds no text, or white space only
EmptyDocument(file) == file.exists /\ file.readable /\ Len(Trim(file.text)) = 0

\* C24: a document whose extracted text is empty or white space makes
\* processDocxFile fail before a chunk is made (no chunk record, no uuid drawn);
\* the initialize() that read it throws, to its caller or into the search that
\* awaits it, and the ready flag and the chunk cache stay as they were: the store
\* does not become ready with an empty chunk set
C24_EmptyDocumentFails ==
    [][\A c \in Callers :
          (lastRead'.caller = c /\ EmptyDocument(lastRead'.file)) =>
              /\ ~ProcessDocxFile(lastRead'.file, uuidCount).ok
              /\ ProcessDocxFile(lastRead'.file, uuidCount).chunks = <<>>
              /\ UNCHANGED <<documents, isInitialized, uuidCount>>
              /\ ~(isInitialized' /\ documents' = <<>>)
              /\ IF pc[c].op \in SearchOps
                 THEN pc'[c] = Settled(pc[c].op, FALSE)
                 ELSE ret'.caller = c /\ ret'.outcome = "error"]_vars

\* C24 witness: initialize() has just thrown on the blank document, and the store
\* is not ready and holds no chunk
C24_Witness ==
    /\ lastRead.file = BlankFile
    /\ EmptyDocument(lastRead.file)
    /\ ret.op = "initialize"
    /\ ret.outcome = "error"
    /\ ~isReady
    /\ getStats.totalChunks = 0

\* the cache is the whole chunk list that one load of a document has made
Complete(chunks) ==
    /\ chunks # <<>>
    /\ \E file \in SourceFiles :
           /\ ProcessDocxFile(file, chunks[1].id - 1).ok
           /\ chunks = ProcessDocxFile(file, chunks[1].id - 1).chunks

CompleteChunkSet == Complete(documents)

\* the end of an initialize() that has loaded the document
LoadCompletes ==
    \E c \in Callers :
        /\ pc[c].at = "loading"
        /\ lastRead'.caller = c
        /\ ProcessDocxFile(lastRead'.file, uuidCount).ok

\* the call of reinitialize()
ReinitializeStarts == \E c \in Callers : pc[c].at = "idle" /\ pc'[c] = Loading("reinitialize")

\* C25: isReady() turns true in the step that completes an initialize() and in no
\* other, turns false in the step that starts a reinitialize() and in no other, is
\* true after the first and false after the second; and whenever isReady() is true
\* the cache holds the complete chunk list of one load, never an empty or partial one
C25_ReadyMeansLoaded ==
    [][/\ isReady' => Complete(documents')
       /\ LoadCompletes => isReady'
       /\ ReinitializeStarts => ~isReady'
       /\ (~isReady /\ isReady') => LoadCompletes
       /\ (isReady /\ ~isReady') => ReinitializeStarts]_vars

\* C25 witness: a load completed after a reinitialize() had started, and the store
\* is ready with the two chunks of the document then read
C25_Witness ==
    /\ isReady
    /\ ret.op = "reinitialize"
    /\ ret.outcome = "ok"
    /\ Len(documents) = 2
    /\ CompleteChunkSet

\* C26: a search that returns a result has scored the complete chunk list of a
\* finished load, whatever reinitialize() did while the search was suspended: it
\* never scores the cache reinitialize() has emptied
C26_SearchScoresLoadedSet ==
    ResultOf(SearchOps) =>
        /\ CompleteChunkSet
        /\ ret.chunks = ScoreAndSelect(documents, ret.query, ret.topK).chunks

\* the load that reinitialize() of caller c started ends in an error
ReloadFails(c) ==
    /\ pc[c] = Loading("reinitialize")
    /\ lastRead'.caller = c
    /\ ~ProcessDocxFile(lastRead'.file, uuidCount).ok

\* C27: when the reload of reinitialize() fails, the call throws to its caller and
\* leaves the store not ready with an empty cache: getStats().totalChunks is 0
C27_FailedReloadLeavesEmpty ==
    [][\A c \in Callers :
          ReloadFails(c) =>
              /\ ret'.caller = c
              /\ ret'.op = "reinitialize"
              /\ ret'.outcome = "error"
              /\ ~isInitialized'
              /\ Len(documents') = 0]_vars

\* the same step on a store that is still as the call of reinitialize() left it:
\* no load of another caller has ended in between
C27_FailedReloadAlone ==
    [][\A c \in Callers :
          (ReloadFails(c) /\ ~isInitialized /\ documents = <<>>) =>
              /\ ret'.caller = c
              /\ ret'.op = "reinitialize"
              /\ ret'.outcome = "error"
              /\ ~isInitialized'
              /\ Len(documents') = 0]_vars

\* the handler has returned the response that carries the stream
Accepted == httpStatus = 200

\* the places of the chunks with done:true in the stream
DoneChunks == {i \in 1..Len(enqueued) : enqueued[i].done}

\* C28: the stream of an accepted request holds chunks with done:false and then at
\* most one chunk with done:true, which is the last chunk enqueued and is the
\* finalChunk or an errorChunk; that chunk is there exactly when the stream is
\* closed, and the stream is closed once
C28_OneDoneChunkThenClose ==
    Accepted =>
        /\ \A i \in DoneChunks : i = Len(enqueued)
        /\ \A i \in DoneChunks : enqueued[i] = FinalChunk \/ enqueued[i].error # NoError
        /\ closes <= 1
        /\ (closes = 1) = (at = "closed")
        /\ (at = "closed") = (Cardinality(DoneChunks) = 1)

\* C28 witness: the completion threw behind its first chunk, and the stream is
\* closed with that chunk and the errorChunk
C28_Witness ==
    /\ Accepted
    /\ at = "closed"
    /\ closes = 1
    /\ Len(enqueued) = 2
    /\ ~enqueued[1].done
    /\ enqueued[2].done
    /\ enqueued[2].error # NoError

\* the models were called in the order of the list, none left out
ListOrder == \A i \in 1..Len(tried) : tried[i].model = models(route)[i]

\* every call of create() before the last one failed, and a model that succeeded
\* is the last one called
StopsAtSuccess ==
    /\ \A i \in 1..(Len(tried) - 1) : tried[i].outcome # "ok"
    /\ chatCompletion # NoModel =>
           /\ tried # <<>>
           /\ tried[Len(tried)] = [model |-> chatCompletion, outcome |-> "ok"]

\* the stream ends with an errorChunk
EndsWithError == enqueued # <<>> /\ enqueued[Len(enqueued)].error # NoError

\* every model of the list was called and failed
AllModelsFailed ==
    /\ Len(tried) = Len(models(route))
    /\ \A i \in 1..Len(tried) : tried[i].outcome # "ok"

\* the stream ends with the errorChunk for the error of the last model called
CarriesLastModelError ==
    /\ EndsWithError
    /\ enqueued[Len(enqueued)] = ErrorChunk(route, tried[Len(tried)].outcome)

\* C29 as stated: the models are called in list order up to the first success,
\* and the stream ends with an errorChunk only when every model has failed, the
\* chunk carrying the error of the last model
C29_ErrorOnlyWhenAllFailed ==
    Accepted =>
        /\ ListOrder
        /\ StopsAtSuccess
        /\ AllModelsFailed => CarriesLastModelError
        /\ EndsWithError => (AllModelsFailed /\ CarriesLastModelError)

\* C29: the models are called in list order up to the first success; when every
\* model has failed the stream ends with the errorChunk for the error of the
\* last model; the stream ends with an errorChunk in one other case only, when
\* the completion of the model that succeeded throws while it is read, and then
\* the chunk carries that error
C29_ErrorWhenAllFailedOrReadFails ==
    Accepted =>
        /\ ListOrder
        /\ StopsAtSuccess
        /\ AllModelsFailed => CarriesLastModelError
        /\ EndsWithError =>
               \/ AllModelsFailed /\ CarriesLastModelError
               \/ /\ chatCompletion # NoModel
                  /\ \E message \in StreamErrors :
                         enqueued[Len(enqueued)] = ErrorChunk(route, message)

\* C29 witness: the four models of chat-groq were called in turn and failed, the
\* first on another error than the last, and the stream ends with the errorChunk
C29_Witness ==
    /\ Accepted
    /\ route = "chat-groq"
    /\ AllModelsFailed
    /\ tried[1].outcome # tried[Len(tried)].outcome
    /\ ErrorField(route, tried[1].outcome) # ErrorField(route, tried[Len(tried)].outcome)
    /\ CarriesLastModelError
    /\ at = "closed"

\* the first error field among the data lines
RECURSIVE FirstError(_, _)
FirstError(lines, i) ==
    IF i > Len(lines) THEN NoError
    ELSE IF lines[i].error # NoError THEN lines[i].error
    ELSE FirstError(lines, i + 1)

\* the step in which submitMessage ends an exchange whose stream held an error line
ErrorLineExchangeEnds ==
    /\ isLoading
    /\ ~isLoading'
    /\ FirstError(streamRead', 1) # NoError

\* C30: when the stream of an exchange has delivered a data line with an error
\* field, submitMessage gives handleError a chat error with the error text, puts
\* that text into the placeholder of the reply, and saves nothing: the collection,
\* the guest conversation and the current conversation stay as they were
C30_ErrorLineReported ==
    [][ErrorLineExchangeEnds =>
           LET text == ErrorTextFor(FirstError(streamRead', 1))
           IN  /\ lastChatError'.type \in {"api", "auth"}
               /\ lastChatError'.message = text
               /\ messages' = FillPlaceholder(text)
               /\ UNCHANGED <<conversations, sessionStorage, currentConversation>>]_vars

TypeOK ==
    /\ isInitialized \in BOOLEAN
    /\ uuidCount \in Nat
    /\ \A c \in Callers : pc[c].at \in {"idle", "loading", "settled"}

====
